---------------------------- MODULE Spec2Model ----------------------------
(***************************************************************************)
(* pylyrics: the terminal rendering and synchronisation engine of          *)
(* src/src/pylyrics/display.py.                                            *)
(*                                                                         *)
(* Strings are sequences of tokens.  A token is a TLA+ string standing for *)
(* ONE character ("a", " ", "U+2014") or for one ANSI escape sequence      *)
(* ("ESC[1m").  The visible content of a row is what is left of it once    *)
(* the escape sequences are taken out.                                     *)
(*                                                                         *)
(* Seconds (Python floats) are fixed-point numbers: an integer count of    *)
(* microseconds, the unit of NowPlaying.position_us.                       *)
(***************************************************************************)
EXTENDS Integers, Sequences, FiniteSets, TLC

VARIABLES
    pc,             \* position of display_lyrics (or of a pure call)
    interrupted,    \* display_lyrics: flag set by _int_handler
    needs_redraw,   \* display_lyrics: flag set by _winch_handler; _write_diff's force
    current_lines,  \* display_lyrics: lines of the current song, or NoLines (None)
    current_info,   \* display_lyrics: NowPlaying of the current song
    previous_idx,   \* display_lyrics: active index of the last tick, -1 at start
    prev_frame,     \* display_lyrics: last frame handed to _write_diff; its prev
    has_termios,    \* display_lyrics: tcgetattr succeeded
    old_termios,    \* display_lyrics: the input mode saved by tcgetattr
    w,              \* columns sampled by _term_size
    h,              \* lines sampled by _term_size
    now,            \* result of get_now_playing, or NoSource (None)
    frame,          \* the frame built in this tick; _write_diff's cur
    active_idx,     \* result of _find_active_line
    message,        \* the message argument of _build_status
    exc,            \* an exception is propagating out of the try block
    exit_path,      \* how the try block was left: "interrupt", "entry", "loop"
    stdin_tty,      \* environment: stdin is an interactive terminal
    tty_mode,       \* environment: input mode of the terminal
    entry_mode,     \* environment: input mode when display_lyrics was entered
    cursor_visible, \* environment: the terminal shows its cursor
    out_ok,         \* environment: the output stream accepts writes
    out,            \* operations on the output stream since the last tick boundary
    screen,         \* environment: the rows the terminal shows
    lrc_text,       \* parse_lrc: its argument, a string with "\n" tokens
    ticks_after_int,\* history: tick bodies begun with the interrupt flag set
    winch_pending   \* history: a resize was notified and no forced write followed

vars == <<pc, interrupted, needs_redraw, current_lines, current_info,
          previous_idx, prev_frame, has_termios, old_termios, w, h, now,
          frame, active_idx, message, exc, exit_path, stdin_tty, tty_mode, entry_mode,
          cursor_visible, out_ok, out, screen, lrc_text, ticks_after_int,
          winch_pending>>

----------------------------------------------------------------------------
(* Bounds of the model *)

MaxLines == 3
MaxTime == 3
MaxW == 20
MaxH == 6
MaxRows == 3

----------------------------------------------------------------------------
(* ANSI escape helpers: display.py 27-51 *)

_ESC == "ESC["
_RESET == _ESC \o "0m"
_BOLD == _ESC \o "1m"
_DIM == _ESC \o "2m"
_HIDE_CURSOR == _ESC \o "?25l"
_SHOW_CURSOR == _ESC \o "?25h"
_CLEAR == <<_ESC \o "2J", _ESC \o "H">>
_EL == _ESC \o "K"
_SYNC_START == "ESC[?2026h"
_SYNC_END == "ESC[?2026l"
_FG_YELLOW == _ESC \o "33m"
_FG_BLUE == _ESC \o "34m"
_FG_MAGENTA == _ESC \o "35m"
_FG_CYAN == _ESC \o "36m"
_FG_WHITE == _ESC \o "37m"
_FG_BR_BLACK == _ESC \o "90m"
_FG_BR_WHITE == _ESC \o "97m"
_BG_BLUE == _ESC \o "44m"

_move(row, col) == _ESC \o ToString(row) \o ";" \o ToString(col) \o "H"

(* The select-graphic-rendition and erase sequences a row may hold. *)
StyleEscapes ==
    {_RESET, _BOLD, _DIM, _EL, _FG_YELLOW, _FG_BLUE, _FG_MAGENTA, _FG_CYAN,
     _FG_WHITE, _FG_BR_BLACK, _FG_BR_WHITE, _BG_BLUE}

(* Characters outside ASCII, one token each. *)
EM_DASH == "U+2014"
ELLIPSIS == "U+2026"

Spaces(n) == [i \in 1..n |-> " "]

Max(a, b) == IF a >= b THEN a ELSE b
Min(a, b) == IF a <= b THEN a ELSE b

(* Python's text[:width] for width >= 0 *)
Prefix(text, width) == SubSeq(text, 1, Min(width, Len(text)))

(* The visible content of a row: the row without its escape sequences. *)
Visible(row) == SelectSeq(row, LAMBDA tok : tok \notin StyleEscapes)

----------------------------------------------------------------------------
(* media.py: NowPlaying *)

US_PER_S == 1000000

NoSource == [none |-> TRUE]

NowPlaying(title, artist, album, duration_us, position_us, is_playing) ==
    [title |-> title, artist |-> artist, album |-> album,
     duration_us |-> duration_us, position_us |-> position_us,
     is_playing |-> is_playing]

(* duration_us / 1_000_000 and position_us / 1_000_000, in fixed point *)
duration_s(np) == np.duration_us
position_s(np) == np.position_us

(* lyrics.py: LyricLine; time_s in fixed point *)
LyricLine(time_s, text) == [time_s |-> time_s, text |-> text]

(* None for a list of lines: a value no parse produces (time_s >= 0). *)
NoLines == <<[time_s |-> -1, text |-> <<"None">>]>>

----------------------------------------------------------------------------
(* Styles: display.py 75-91 *)

(* str.center(w): CPython pads left with marg/2 + (marg & w & 1). *)
str_center(text, width) ==
    IF Len(text) >= width
    THEN text
    ELSE LET marg == width - Len(text)
             left == (marg \div 2) + (IF marg % 2 = 1 /\ width % 2 = 1 THEN 1 ELSE 0)
         IN  Spaces(left) \o text \o Spaces(marg - left)

_active(text, width) ==
    <<_BOLD, _BG_BLUE, _FG_BR_WHITE>> \o str_center(text, width) \o <<_RESET, _EL>>

_GRAD ==
    << <<_BOLD, _FG_WHITE>>,
       <<_FG_WHITE>>,
       <<_FG_CYAN>>,
       <<_FG_BLUE>>,
       <<_FG_BR_BLACK>>,
       <<_DIM, _FG_BR_BLACK>> >>

(* dist is an integer here, so int(round(dist)) = dist; _GRAD is 0-based in
   the source. *)
_styled_line(text, dist) ==
    LET d == Max(0, dist - 1)
    IN  _GRAD[Min(d, Len(_GRAD) - 1) + 1] \o text \o <<_RESET, _EL>>

----------------------------------------------------------------------------
(* Helpers: display.py 129-149 *)

RECURSIVE Digits(_)
Digits(n) ==
    IF n < 10 THEN <<ToString(n)>> ELSE Digits(n \div 10) \o <<ToString(n % 10)>>

(* m, s = divmod(int(seconds), 60); f"{m}:{s:02d}" *)
_format_time(seconds) ==
    LET whole == seconds \div US_PER_S
        m == whole \div 60
        s == whole % 60
    IN  Digits(m) \o <<":">> \o <<ToString(s \div 10), ToString(s % 10)>>

(* Mutant of FindLoop: the comparison is < where the source has <=. *)
RECURSIVE FindLoop_strict(_, _, _, _, _)
FindLoop_strict(lines, p, lo, hi, result) ==
    IF lo <= hi
    THEN LET mid == (lo + hi) \div 2
         IN  IF lines[mid + 1].time_s < p
             THEN FindLoop_strict(lines, p, mid + 1, hi, mid)
             ELSE FindLoop_strict(lines, p, lo, mid - 1, result)
    ELSE result

(* The binary search, one iteration of the while loop per unfolding.
   lines is 1-based here: lines[mid] of the source is lines[mid + 1]. *)
RECURSIVE FindLoop(_, _, _, _, _)
FindLoop(lines, p, lo, hi, result) ==
    IF lo <= hi
    THEN LET mid == (lo + hi) \div 2
         IN  IF lines[mid + 1].time_s <= p
             THEN FindLoop(lines, p, mid + 1, hi, mid)
             ELSE FindLoop(lines, p, lo, mid - 1, result)
    ELSE result

(* Mutant of _find_active_line: hi starts at len(lines) - 2. *)
_find_active_line_short(lines, p) == FindLoop(lines, p, 0, Len(lines) - 2, 0)

_find_active_line(lines, p) == FindLoop(lines, p, 0, Len(lines) - 1, 0)

(* Mutant of _center: pads on both sides, as str.center does. *)
_center_both(text, width) ==
    IF Len(text) >= width THEN Prefix(text, width) ELSE str_center(text, width)

_center(text, width) ==
    IF Len(text) >= width
    THEN Prefix(text, width)
    ELSE Spaces((width - Len(text)) \div 2) \o text

----------------------------------------------------------------------------
(* Frame builders: display.py 154-229 *)

DurStr(np) ==
    IF duration_s(np) > 0 THEN _format_time(duration_s(np)) ELSE <<"?", ":", "?", "?">>

(* f"{now.title} — {now.artist}  {pos_str} / {dur_str}" *)
HeaderPlain(np) ==
    np.title \o <<" ", EM_DASH, " ">> \o np.artist \o <<" ", " ">>
    \o _format_time(position_s(np)) \o <<" ", "/", " ">> \o DurStr(np)

HeaderRow(np, width) ==
    LET pad == Max(0, (width - Len(HeaderPlain(np))) \div 2)
    IN  Spaces(pad)
        \o <<_BOLD, _FG_MAGENTA>> \o np.title \o <<_RESET>>
        \o <<_FG_BR_BLACK, " ", EM_DASH, " ", _RESET>>
        \o <<_FG_CYAN>> \o np.artist \o <<_RESET>>
        \o <<_FG_YELLOW, " ", " ">> \o _format_time(position_s(np))
        \o <<" ", "/", " ">> \o DurStr(np) \o <<_RESET, _EL>>

(* Mutant of LyricRow: an index outside the lines is clamped to the nearest
   line instead of giving a blank row. *)
LyricRow_clamped(lines, idx, width, start_idx, row) ==
    LET lyric_idx == Max(0, Min(start_idx + row, Len(lines) - 1))
    IN  IF Len(lines) = 0
        THEN <<_EL>>
        ELSE LET lyric == lines[lyric_idx + 1].text
                 dist == IF lyric_idx >= idx THEN lyric_idx - idx ELSE idx - lyric_idx
             IN  IF dist = 0
                 THEN _active(lyric, width)
                 ELSE _styled_line(_center(lyric, width), dist)

(* One row of the lyrics area; row counts from 0. *)
LyricRow(lines, idx, width, start_idx, row) ==
    LET lyric_idx == start_idx + row
    IN  IF lyric_idx < 0 \/ lyric_idx >= Len(lines)
        THEN <<_EL>>
        ELSE LET lyric == lines[lyric_idx + 1].text
                 dist == IF lyric_idx >= idx THEN lyric_idx - idx ELSE idx - lyric_idx
             IN  IF dist = 0
                 THEN _active(lyric, width)
                 ELSE _styled_line(_center(lyric, width), dist)

(* while len(rows) < h: rows.append(EL) *)
PadRows(rows, height) ==
    rows \o [i \in 1..Max(0, height - Len(rows)) |-> <<_EL>>]

_build_frame(lines, idx, np, width, height) ==
    LET available == height - 3
        half == available \div 2
        start_idx == idx - half
        area == [r \in 1..Max(0, available) |->
                    LyricRow(lines, idx, width, start_idx, r - 1)]
    IN  PadRows(<<HeaderRow(np, width), <<_EL>>>> \o area, height)

(* Mutant of StatusHeader: no header without a source. *)
StatusHeader_blank(np) ==
    IF np # NoSource THEN HeaderPlain(np) ELSE <<>>

(* 209-214: the header, "pylyrics" without a source *)
StatusHeader(np) ==
    IF np # NoSource THEN HeaderPlain(np) ELSE <<"p", "y", "l", "y", "r", "i", "c", "s">>

StatusRow(text, width) ==
    <<_FG_BR_BLACK>> \o _center(text, width) \o <<_RESET, _EL>>

_build_status(msg, np, width, height) ==
    LET available == height - 3
        mid == available \div 2
        area == [r \in 1..Max(0, available) |->
                    IF r - 1 = mid THEN StatusRow(msg, width) ELSE <<_EL>>]
    IN  PadRows(<<StatusRow(StatusHeader(np), width), <<_EL>>>> \o area, height)

----------------------------------------------------------------------------
(* Differential writer: display.py 234-249 *)

(* An operation on the output stream. *)
OutWrite(data) == [op |-> "write", data |-> data]
OutFlush == [op |-> "flush", data |-> <<>>]

(* Mutant of RowChanged: force is ignored. *)
RowChanged_noforce(prev, cur, force, row_idx) ==
    row_idx >= Len(prev) \/ prev[row_idx + 1] # cur[row_idx + 1]

(* force or row_idx >= len(prev) or prev[row_idx] != line; row_idx from 0 *)
RowChanged(prev, cur, force, row_idx) ==
    force \/ row_idx >= Len(prev) \/ prev[row_idx + 1] # cur[row_idx + 1]

(* What the for loop writes to buf for rows row_idx.. of cur. *)
RECURSIVE DiffRows(_, _, _, _)
DiffRows(prev, cur, force, row_idx) ==
    IF row_idx >= Len(cur)
    THEN <<>>
    ELSE (IF RowChanged(prev, cur, force, row_idx)
          THEN <<_move(row_idx + 1, 1)>> \o cur[row_idx + 1]
          ELSE <<>>)
         \o DiffRows(prev, cur, force, row_idx + 1)

(* 240, 244-245: changed, set when a row was appended to buf *)
DiffChanged(prev, cur, force) ==
    \E row_idx \in 0..(Len(cur) - 1) : RowChanged(prev, cur, force, row_idx)

(* Mutant of DiffBuf: the end marker is not written. *)
DiffBuf_unclosed(prev, cur, force) ==
    <<_SYNC_START>> \o DiffRows(prev, cur, force, 0)

DiffBuf(prev, cur, force) ==
    <<_SYNC_START>> \o DiffRows(prev, cur, force, 0) \o <<_SYNC_END>>

(* Mutant of _write_diff: the buffer is written whether or not a row changed. *)
_write_diff_always(prev, cur, force) ==
    <<OutWrite(DiffBuf(prev, cur, force)), OutFlush>>

(* The operations _write_diff performs on out. *)
_write_diff(prev, cur, force) ==
    IF DiffChanged(prev, cur, force)
    THEN <<OutWrite(DiffBuf(prev, cur, force)), OutFlush>>
    ELSE <<>>

----------------------------------------------------------------------------
(* Input sets *)

RECURSIVE SeqsUpTo(_, _)
SeqsUpTo(S, n) ==
    IF n = 0
    THEN {<<>>}
    ELSE LET shorter == SeqsUpTo(S, n - 1)
         IN  shorter \cup {Append(s, x) : s \in {t \in shorter : Len(t) = n - 1}, x \in S}

IsSorted(lines) ==
    \A i \in 1..(Len(lines) - 1) : lines[i].time_s <= lines[i + 1].time_s

(* Locator: every sorted sequence of at most MaxLines lines with timestamps
   0..MaxTime, ties included. *)
LocatorLines ==
    {lines \in SeqsUpTo({LyricLine(t, <<"a">>) : t \in 0..MaxTime}, MaxLines) :
        IsSorted(lines)}

LocatorNows ==
    {NowPlaying(<<"T">>, <<"A">>, <<>>, 0, p, TRUE) : p \in 0..(MaxTime + 1)}

(* Frame builders: texts shorter than, as long as and longer than the
   narrow widths; the line at index i has timestamp i seconds. *)
Texts == {<<>>, <<"a", "b", "c">>}

FrameLines ==
    {[i \in 1..Len(ts) |-> LyricLine((i - 1) * US_PER_S, ts[i])] :
        ts \in SeqsUpTo(Texts, MaxLines)}

FrameNows ==
    {NowPlaying(<<"T">>, <<>>, <<>>, 0, 0, TRUE),
     NowPlaying(<<"T">>, <<"A">>, <<>>, 125 * US_PER_S, 61 * US_PER_S, TRUE),
     NowPlaying(<<"T", "T">>, <<"A">>, <<"L">>, 600 * US_PER_S, 599999999, FALSE)}

MsgNoPlayer ==
    <<"N", "o", " ", "m", "e", "d", "i", "a", " ", "p", "l", "a", "y", "e", "r",
      " ", "d", "e", "t", "e", "c", "t", "e", "d", ".">>
MsgFetching ==
    <<"F", "e", "t", "c", "h", "i", "n", "g", " ", "l", "y", "r", "i", "c", "s",
      ELLIPSIS>>
MsgNoLyrics ==
    <<"N", "o", " ", "s", "y", "n", "c", "e", "d", " ", "l", "y", "r", "i", "c",
      "s", " ", "f", "o", "u", "n", "d", ".">>
Messages == {MsgNoPlayer, MsgFetching, MsgNoLyrics}

(* Differential writer: every pair of frames of at most MaxRows rows. *)
DiffRowSet == {<<_EL>>, <<"a", _EL>>}
DiffFrames == SeqsUpTo(DiffRowSet, MaxRows)

----------------------------------------------------------------------------
(* The pure functions, called on every input of the sets above.  The
   variables of display_lyrics hold the arguments and the result; those a
   call does not use stay at the values below. *)

RestIdle ==
    /\ interrupted = FALSE
    /\ current_info = NoSource
    /\ previous_idx = -1
    /\ has_termios = FALSE
    /\ old_termios = "cooked"
    /\ exc = FALSE
    /\ exit_path = "none"
    /\ stdin_tty = FALSE
    /\ tty_mode = "cooked"
    /\ entry_mode = "cooked"
    /\ cursor_visible = TRUE
    /\ out_ok = TRUE
    /\ screen = <<>>
    /\ ticks_after_int = 0
    /\ winch_pending = FALSE

restVars ==
    <<interrupted, current_info, previous_idx, has_termios, old_termios, exc,
      exit_path, stdin_tty, tty_mode, entry_mode, cursor_visible, out_ok,
      screen, ticks_after_int, winch_pending>>

(* _find_active_line(current_lines, now.position_s) *)
InitLocator ==
    /\ pc = "call"
    /\ current_lines \in LocatorLines
    /\ now \in LocatorNows
    /\ active_idx = -1
    /\ needs_redraw = FALSE /\ prev_frame = <<>> /\ frame = <<>>
    /\ w = 80 /\ h = 24 /\ message = <<>> /\ out = <<>>
    /\ lrc_text = <<>>
    /\ RestIdle

CallFindActiveLine ==
    /\ pc = "call"
    /\ active_idx' = _find_active_line(current_lines, position_s(now))
    /\ pc' = "ret"
    /\ UNCHANGED <<current_lines, now, needs_redraw, prev_frame, frame, w, h,
                   message, out, lrc_text>>
    /\ UNCHANGED restVars

NextLocator == CallFindActiveLine

SpecLocator == InitLocator /\ [][NextLocator]_vars

(* _build_frame(current_lines, active_idx, now, w, h) and
   _build_status(message, now, w, h) *)
InitFrame ==
    /\ pc = "call"
    /\ current_lines \in FrameLines
    /\ active_idx \in 0..Max(0, Len(current_lines) - 1)
    /\ now \in FrameNows \cup {NoSource}
    /\ w \in 1..MaxW
    /\ h \in 1..MaxH
    /\ message = <<>> /\ frame = <<>>
    /\ needs_redraw = FALSE /\ prev_frame = <<>> /\ out = <<>>
    /\ lrc_text = <<>>
    /\ RestIdle

CallBuildFrame ==
    /\ pc = "call"
    /\ now # NoSource
    /\ frame' = _build_frame(current_lines, active_idx, now, w, h)
    /\ pc' = "ret_frame"
    /\ UNCHANGED <<current_lines, active_idx, now, w, h, message, needs_redraw,
                   prev_frame, out, lrc_text>>
    /\ UNCHANGED restVars

CallBuildStatus ==
    /\ pc = "call"
    /\ \E msg \in Messages :
        /\ message' = msg
        /\ frame' = _build_status(msg, now, w, h)
    /\ pc' = "ret_status"
    /\ UNCHANGED <<current_lines, active_idx, now, w, h, needs_redraw,
                   prev_frame, out, lrc_text>>
    /\ UNCHANGED restVars

NextFrame == CallBuildFrame \/ CallBuildStatus

SpecFrame == InitFrame /\ [][NextFrame]_vars

(* _write_diff(out, prev_frame, frame, needs_redraw) *)
InitDiff ==
    /\ pc = "call"
    /\ prev_frame \in DiffFrames
    /\ frame \in DiffFrames
    /\ needs_redraw \in BOOLEAN
    /\ out = <<>>
    /\ current_lines = NoLines /\ active_idx = -1 /\ now = NoSource
    /\ w = 80 /\ h = 24 /\ message = <<>>
    /\ lrc_text = <<>>
    /\ RestIdle

CallWriteDiff ==
    /\ pc = "call"
    /\ out' = out \o _write_diff(prev_frame, frame, needs_redraw)
    /\ pc' = "ret"
    /\ UNCHANGED <<prev_frame, frame, needs_redraw, current_lines, active_idx,
                   now, w, h, message, lrc_text>>
    /\ UNCHANGED restVars

NextDiff == CallWriteDiff

SpecDiff == InitDiff /\ [][NextDiff]_vars

----------------------------------------------------------------------------
(* parse_lrc: lyrics.py 27-51 *)

MaxLrcLines == 3

LF == "\n"
IsSpace(tok) == tok \in {" ", LF}
DigitTokens == {"0", "1", "2", "3", "4", "5", "6", "7", "8", "9"}
DigitVal(tok) == CHOOSE d \in 0..9 : ToString(d) = tok

(* str.splitlines(): the pieces between line ends, no piece after a final
   line end *)
RECURSIVE splitlines(_)
splitlines(text) ==
    IF text = <<>>
    THEN <<>>
    ELSE LET ends == {k \in 1..Len(text) : text[k] = LF} \cup {Len(text) + 1}
             k == CHOOSE e \in ends : \A e2 \in ends : e <= e2
         IN  <<SubSeq(text, 1, k - 1)>> \o splitlines(SubSeq(text, k + 1, Len(text)))

(* str.strip(): without the white space at both ends *)
strip(s) ==
    LET inked == {k \in 1..Len(s) : ~IsSpace(s[k])}
    IN  IF inked = {}
        THEN <<>>
        ELSE SubSeq(s, CHOOSE a \in inked : \A b \in inked : a <= b,
                       CHOOSE a \in inked : \A b \in inked : b <= a)

(* int(str) of a string of digits *)
RECURSIVE int(_)
int(digits) ==
    IF digits = <<>>
    THEN 0
    ELSE 10 * int(SubSeq(digits, 1, Len(digits) - 1)) + DigitVal(digits[Len(digits)])

AllDigits(s, from, to) == to <= Len(s) /\ \A k \in from..to : s[k] \in DigitTokens
At(s, k, toks) == k <= Len(s) /\ s[k] \in toks

(* 34: the ways pattern matches at the start of s, as <<m, f>>: m digits of
   minutes, f digits of fraction (0: the optional group takes nothing).
   \[(\d{1,2}):(\d{2})(?:[.:](\d{1,3}))?\] *)
PatternShapes(s) ==
    {shape \in (1..2) \X (0..3) :
        LET m == shape[1]
            f == shape[2]
            colon == m + 2
            after == colon + 3
        IN  /\ At(s, 1, {"["})
            /\ AllDigits(s, 2, m + 1)
            /\ At(s, colon, {":"})
            /\ AllDigits(s, colon + 1, colon + 2)
            /\ IF f = 0
               THEN At(s, after, {"]"})
               ELSE /\ At(s, after, {".", ":"})
                    /\ AllDigits(s, after + 1, after + f)
                    /\ At(s, after + f + 1, {"]"})}

(* 37-39: m = pattern.match(raw_line.strip()); if not m: continue *)
pattern_match(raw_line) == PatternShapes(strip(raw_line)) # {}

(* str.ljust(3, "0")[:3] *)
ljust3(s) == SubSeq(s \o <<"0", "0", "0">>, 1, Max(3, Len(s)))
first3(s) == SubSeq(s, 1, Min(3, Len(s)))

(* 40-48: the LyricLine of a matching line.  The regular expression is
   greedy: the longest minutes, then the longest fraction. *)
ParsedLine(raw_line) ==
    LET s == strip(raw_line)
        shapes == PatternShapes(s)
        shape == CHOOSE x \in shapes :
                    \A y \in shapes : y[1] < x[1] \/ (y[1] = x[1] /\ y[2] <= x[2])
        m == shape[1]
        f == shape[2]
        colon == m + 2
        close == IF f = 0 THEN colon + 3 ELSE colon + 4 + f
        minutes == int(SubSeq(s, 2, m + 1))
        seconds == int(SubSeq(s, colon + 1, colon + 2))
        frac_str == IF f = 0 THEN <<"0">> ELSE SubSeq(s, colon + 4, colon + 3 + f)
        millis == int(first3(ljust3(frac_str)))
    IN  LyricLine((minutes * 60 + seconds) * US_PER_S + millis * (US_PER_S \div 1000),
                  strip(SubSeq(s, close + 1, Len(s))))

(* 36-48: the for loop, over raw_lines[k..] *)
RECURSIVE ParseLoop(_, _)
ParseLoop(raw_lines, k) ==
    IF k > Len(raw_lines)
    THEN <<>>
    ELSE (IF pattern_match(raw_lines[k]) THEN <<ParsedLine(raw_lines[k])>> ELSE <<>>)
         \o ParseLoop(raw_lines, k + 1)

(* Mutant of SortInsert: the line goes before the lines of its time_s. *)
SortInsert_before(sorted, line) ==
    LET n == Cardinality({k \in 1..Len(sorted) : sorted[k].time_s < line.time_s})
    IN  SubSeq(sorted, 1, n) \o <<line>> \o SubSeq(sorted, n + 1, Len(sorted))

(* list.sort(key=...) is stable: a line goes after the lines, already in
   place, whose time_s is not above its own. *)
SortInsert(sorted, line) ==
    LET n == Cardinality({k \in 1..Len(sorted) : sorted[k].time_s <= line.time_s})
    IN  SubSeq(sorted, 1, n) \o <<line>> \o SubSeq(sorted, n + 1, Len(sorted))

(* 50: lines.sort(key=lambda l: l.time_s), of lines[1..n] *)
RECURSIVE SortByTime(_, _)
SortByTime(lines, n) ==
    IF n = 0 THEN <<>> ELSE SortInsert(SortByTime(lines, n - 1), lines[n])

parse_lrc(text) ==
    LET lines == ParseLoop(splitlines(text), 1)
    IN  SortByTime(lines, Len(lines))

(* The lines an LRC text is made of here: 60 s written in two ways, 1.5 s
   with white space around it, and three lines the pattern does not match
   (one digit of seconds, four digits of fraction, text before the stamp). *)
RawA == <<"[", "0", "0", ":", "6", "0", "]", "a">>
RawB == <<"[", "1", ":", "0", "0", ":", "0", "]", " ", "b">>
RawC == <<" ", "[", "0", "0", ":", "0", "1", ".", "5", "]", " ", "c", " ">>
RawD == <<"[", "0", "0", ":", "1", "]", "d">>
RawE == <<"[", "0", "0", ":", "0", "1", ".", "5", "0", "0", "0", "]", "e">>
RawF == <<"x", "[", "0", "0", ":", "0", "1", "]">>
RawLines == {RawA, RawB, RawC, RawD, RawE, RawF}

RECURSIVE JoinLines(_)
JoinLines(raw_lines) ==
    IF raw_lines = <<>>
    THEN <<>>
    ELSE raw_lines[1] \o <<LF>> \o JoinLines(Tail(raw_lines))

LrcTexts == {JoinLines(raw_lines) : raw_lines \in SeqsUpTo(RawLines, MaxLrcLines)}

InitParser ==
    /\ pc = "call"
    /\ lrc_text \in LrcTexts
    /\ current_lines = <<>>
    /\ active_idx = -1 /\ now = NoSource
    /\ needs_redraw = FALSE /\ prev_frame = <<>> /\ frame = <<>>
    /\ w = 80 /\ h = 24 /\ message = <<>> /\ out = <<>>
    /\ RestIdle

CallParseLrc ==
    /\ pc = "call"
    /\ current_lines' = parse_lrc(lrc_text)
    /\ pc' = "ret_parse"
    /\ UNCHANGED <<lrc_text, active_idx, now, needs_redraw, prev_frame, frame,
                   w, h, message, out>>
    /\ UNCHANGED restVars

NextParser == CallParseLrc

SpecParser == InitParser /\ [][NextParser]_vars

----------------------------------------------------------------------------
(* display_lyrics: display.py 254-353.  One action per step of the function;
   the steps are cut where a signal handler or an exception can come in
   between.  The environment: *)

(* What get_now_playing may return: two songs, one of them at two positions
   and once more paused, with another album and no duration. *)
Song1 == NowPlaying(<<"T">>, <<"A">>, <<>>, 125 * US_PER_S, 0, TRUE)
Song1Later == NowPlaying(<<"T">>, <<"A">>, <<>>, 125 * US_PER_S, 1500000, TRUE)
Song1Paused == NowPlaying(<<"T">>, <<"A">>, <<"L">>, 0, 0, FALSE)
Song2 == NowPlaying(<<"U">>, <<"A">>, <<>>, 0, 0, TRUE)
LoopNows == {Song1, Song1Later, Song1Paused, Song2}

(* What fetch_lyrics may return, besides None and the empty list. *)
DocA ==
    <<LyricLine(0, <<"a", "b", "c">>), LyricLine(US_PER_S, <<>>),
      LyricLine(2 * US_PER_S, <<"a", "b", "c">>)>>
DocB == <<LyricLine(US_PER_S, <<"a", "b", "c">>)>>
LoopLyrics == {DocA, DocB}
FetchResults == LoopLyrics \cup {NoLines, <<>>}

(* Mutant of OrNone: an empty list is kept as it is. *)
OrNone_kept(result) == result

(* display.py 323-324: if not current_lines: current_lines = None;
   cli.py 94: lyrics if lyrics else None *)
OrNone(result) == IF result = <<>> \/ result = NoLines THEN NoLines ELSE result

(* What _term_size may return: <<columns, lines>>. *)
LoopSizes == {<<20, 5>>, <<3, 4>>}

(* Input modes of the terminal: the two a shell may run in, and the one
   tty.setcbreak sets (no echo, no line buffering). *)
ShellModes == {"cooked", "noecho"}

Running == pc \notin {"returned", "raised"}

(* The terminal, as far as the loop's writes drive it: rows of tokens, a
   cursor set by the cursor-position sequence of _move (display.py 60-61),
   a token written over the cell under the cursor, the erase sequence _EL
   cutting the row after the cursor, and _CLEAR (display.py 45) emptying
   every row.  Rows are counted from 1, as _move counts them. *)
ShellScreen == <<<<"$">>>>

MoveTable == [row \in 1..24 |-> _move(row, 1)]
MoveSet == {MoveTable[row] : row \in 1..24}
MoveRow(tok) == CHOOSE row \in 1..24 : tok = MoveTable[row]
IsMove(tok) == tok \in MoveSet

TermRow(scr, row) == IF row <= Len(scr) THEN scr[row] ELSE <<>>

(* The row a terminal shows after seg was written from its first column
   over old: _EL cuts what old had beyond the cursor. *)
TermOver(old, seg) ==
    IF \E j \in 1..Len(seg) : seg[j] = _EL
    THEN seg
    ELSE seg \o SubSeq(old, Len(seg) + 1, Len(old))

(* The screen after the buffer data of one synchronised update: each
   cursor-position sequence starts a segment that runs to the next one or to
   the end marker. *)
TermFeed(scr, data) ==
    LET moves == {k \in 1..Len(data) : IsMove(data[k])}
        stops == moves \cup {k \in 1..Len(data) : data[k] = _SYNC_END} \cup {Len(data) + 1}
        SegEnd(k) == CHOOSE j \in stops : j > k /\ \A j2 \in stops : j2 > k => j <= j2
        Seg(k) == SubSeq(data, k + 1, SegEnd(k) - 1)
        LastMove(row) ==
            CHOOSE k \in moves :
                /\ MoveRow(data[k]) = row
                /\ \A k2 \in moves : MoveRow(data[k2]) = row => k2 <= k
        rows == {MoveRow(data[k]) : k \in moves}
        top == CHOOSE n \in rows \cup {Len(scr)} : \A m \in rows \cup {Len(scr)} : m <= n
    IN  [row \in 1..top |->
            IF row \in rows
            THEN TermOver(TermRow(scr, row), Seg(LastMove(row)))
            ELSE TermRow(scr, row)]

(* The screen after the operations ops of one _write_diff call. *)
TermShow(scr, ops) ==
    IF ops = <<>> THEN scr ELSE TermFeed(scr, ops[1].data)

(* display.py 259-279, after construction: the handlers are installed and
   the render state is set from the arguments. *)
Init ==
    /\ pc = "start"
    /\ interrupted = FALSE
    /\ needs_redraw = TRUE
    /\ current_lines \in {OrNone(result) : result \in FetchResults}
    /\ current_info \in LoopNows
    /\ previous_idx = -1
    /\ prev_frame = <<>>
    /\ has_termios = FALSE
    /\ old_termios = "cooked"
    /\ w = 80 /\ h = 24
    /\ now = NoSource
    /\ frame = <<>>
    /\ active_idx = -1
    /\ message = <<>>
    /\ exc = FALSE
    /\ exit_path = "none"
    /\ stdin_tty \in BOOLEAN
    /\ tty_mode \in ShellModes
    /\ entry_mode = tty_mode
    /\ cursor_visible = TRUE
    /\ out_ok = TRUE
    /\ out = <<>>
    /\ screen = ShellScreen
    /\ lrc_text = <<>>
    /\ ticks_after_int = 0
    /\ winch_pending = FALSE

envVars == <<stdin_tty, entry_mode, lrc_text>>
histVars == <<ticks_after_int, winch_pending>>
excVars == <<exc, exit_path>>
renderVars == <<current_lines, current_info, previous_idx, prev_frame>>
tickVars == <<w, h, now, frame, active_idx, message>>
flagVars == <<interrupted, needs_redraw>>
termVars == <<has_termios, old_termios, tty_mode, cursor_visible>>

(* An exception leaves the try block for its finally clause. *)
Raise(where) == pc' = "finally" /\ exc' = TRUE /\ exit_path' = where

(* 281-285: old_termios = termios.tcgetattr(fd), termios.error when stdin is
   no terminal *)
Tcgetattr ==
    /\ pc = "start"
    /\ has_termios' = stdin_tty
    /\ old_termios' = IF stdin_tty THEN tty_mode ELSE old_termios
    /\ pc' = "setcbreak"
    /\ UNCHANGED <<renderVars, tickVars, flagVars, envVars, excVars, tty_mode,
                   cursor_visible, out_ok, out, screen, histVars>>

(* 288-289: if has_termios: tty.setcbreak(fd) *)
Setcbreak ==
    /\ pc = "setcbreak"
    /\ tty_mode' = IF has_termios THEN "cbreak" ELSE tty_mode
    /\ pc' = "entry"
    /\ UNCHANGED <<renderVars, tickVars, flagVars, envVars, excVars, has_termios,
                   old_termios, cursor_visible, out_ok, out, screen, histVars>>

(* 291-293: hide the cursor, clear the screen, flush *)
EntryWrite ==
    /\ pc = "entry"
    /\ IF out_ok
       THEN /\ out' = out \o <<OutWrite(<<_HIDE_CURSOR>>), OutWrite(_CLEAR), OutFlush>>
            /\ cursor_visible' = FALSE
            /\ screen' = <<>>
            /\ pc' = "loop"
            /\ UNCHANGED excVars
       ELSE Raise("entry") /\ UNCHANGED <<out, cursor_visible, screen>>
    /\ UNCHANGED <<renderVars, tickVars, flagVars, envVars, has_termios,
                   old_termios, tty_mode, out_ok, histVars>>

(* 295: while not interrupted.  A tick boundary: out starts over. *)
LoopTest ==
    /\ pc = "loop"
    /\ pc' = IF interrupted THEN "finally" ELSE "sleep"
    /\ exit_path' = IF interrupted THEN "interrupt" ELSE exit_path
    /\ out' = <<>>
    /\ UNCHANGED <<renderVars, tickVars, flagVars, envVars, termVars, exc, out_ok,
                   screen, histVars>>

(* 296-299: time.sleep(_POLL_DT); w, h = _term_size();
   now = get_now_playing(player_bus) *)
Poll ==
    /\ pc = "sleep"
    /\ \E size \in LoopSizes : w' = size[1] /\ h' = size[2]
    /\ now' \in LoopNows \cup {NoSource}
    /\ pc' = "tick"
    /\ ticks_after_int' = IF interrupted THEN ticks_after_int + 1 ELSE ticks_after_int
    /\ UNCHANGED <<renderVars, frame, active_idx, message, flagVars, envVars,
                   termVars, excVars, out_ok, out, screen, winch_pending>>

(* 299: get_now_playing raises (the session bus is gone) *)
PollRaises ==
    /\ pc = "sleep"
    /\ Raise("loop")
    /\ UNCHANGED <<renderVars, tickVars, flagVars, envVars, termVars, out_ok, out,
                   screen, histVars>>

(* _write_diff(out, prev, cur, force) called from the loop: nothing happens
   when no row changed, the write raises when the stream is broken. *)
WriteDiffThen(prev, cur, force, next_pc) ==
    LET ops == _write_diff(prev, cur, force)
    IN  IF ops = <<>> \/ out_ok
        THEN /\ out' = out \o ops
             /\ screen' = TermShow(screen, ops)
             /\ winch_pending' = (winch_pending /\ ~(force /\ ops # <<>>))
             /\ pc' = next_pc
             /\ UNCHANGED <<excVars, ticks_after_int>>
        ELSE Raise("loop") /\ UNCHANGED <<out, screen, histVars>>

(* 302-304: no player *)
NoPlayerWrite ==
    /\ pc = "tick"
    /\ now = NoSource
    /\ message' = MsgNoPlayer
    /\ frame' = _build_status(MsgNoPlayer, NoSource, w, h)
    /\ WriteDiffThen(prev_frame, frame', needs_redraw, "noplayer_commit")
    /\ UNCHANGED <<renderVars, w, h, now, active_idx, flagVars, envVars,
                   termVars, out_ok>>

(* 305-307: prev_frame = frame; needs_redraw = False; continue *)
NoPlayerCommit ==
    /\ pc = "noplayer_commit"
    /\ prev_frame' = frame
    /\ needs_redraw' = FALSE
    /\ pc' = "loop"
    /\ UNCHANGED <<current_lines, current_info, previous_idx, tickVars,
                   interrupted, envVars, termVars, excVars, out_ok, out, screen,
                   histVars>>

(* Mutant of SongChanged: the whole NowPlaying is compared. *)
SongChanged_anyfield == now # current_info

(* 310: now.title != current_info.title or now.artist != current_info.artist *)
SongChanged ==
    now.title # current_info.title \/ now.artist # current_info.artist

(* 310-317: song changed: the "Fetching lyrics" frame, a full redraw *)
SongChangeWrite ==
    /\ pc = "tick"
    /\ now # NoSource
    /\ SongChanged
    /\ current_info' = now
    /\ previous_idx' = -1
    /\ message' = MsgFetching
    /\ frame' = _build_status(MsgFetching, now, w, h)
    /\ LET ops == _write_diff(<<>>, frame', TRUE)
       IN  IF ops = <<>> \/ out_ok
           THEN /\ out' = out \o ops
                /\ screen' = TermShow(screen, ops)
                /\ winch_pending' = (winch_pending /\ ops = <<>>)
                /\ prev_frame' = frame'
                /\ pc' = "fetch"
                /\ UNCHANGED <<excVars, ticks_after_int>>
           ELSE /\ Raise("loop")
                /\ prev_frame' = <<>>
                /\ UNCHANGED <<out, screen, histVars>>
    /\ UNCHANGED <<current_lines, w, h, now, active_idx, flagVars, envVars,
                   termVars, out_ok>>

(* Mutant of Fetch: needs_redraw is not set. *)
Fetch_noredraw ==
    /\ pc = "fetch"
    /\ \E result \in FetchResults : current_lines' = OrNone(result)
    /\ pc' = "loop"
    /\ UNCHANGED <<current_info, previous_idx, prev_frame, tickVars, flagVars,
                   envVars, termVars, excVars, out_ok, out, screen, histVars>>

(* 319-326: current_lines = fetch_lyrics(...); an empty result is None;
   needs_redraw = True; continue *)
Fetch ==
    /\ pc = "fetch"
    /\ \E result \in FetchResults : current_lines' = OrNone(result)
    /\ needs_redraw' = TRUE
    /\ pc' = "loop"
    /\ UNCHANGED <<current_info, previous_idx, prev_frame, tickVars,
                   interrupted, envVars, termVars, excVars, out_ok, out, screen,
                   histVars>>

(* 319: fetch_lyrics raises (an error it does not catch) *)
FetchRaises ==
    /\ pc = "fetch"
    /\ Raise("loop")
    /\ UNCHANGED <<renderVars, tickVars, flagVars, envVars, termVars, out_ok, out,
                   screen, histVars>>

(* 329-331: no lyrics *)
NoLyricsWrite ==
    /\ pc = "tick"
    /\ now # NoSource
    /\ ~SongChanged
    /\ current_lines = NoLines
    /\ message' = MsgNoLyrics
    /\ frame' = _build_status(MsgNoLyrics, now, w, h)
    /\ WriteDiffThen(prev_frame, frame', needs_redraw, "nolyrics_commit")
    /\ UNCHANGED <<renderVars, w, h, now, active_idx, flagVars, envVars,
                   termVars, out_ok>>

(* 332-334: prev_frame = frame; needs_redraw = False; continue *)
NoLyricsCommit ==
    /\ pc = "nolyrics_commit"
    /\ prev_frame' = frame
    /\ needs_redraw' = FALSE
    /\ pc' = "loop"
    /\ UNCHANGED <<current_lines, current_info, previous_idx, tickVars,
                   interrupted, envVars, termVars, excVars, out_ok, out, screen,
                   histVars>>

(* 336: active_idx = _find_active_line(current_lines, now.position_s) *)
Locate ==
    /\ pc = "tick"
    /\ now # NoSource
    /\ ~SongChanged
    /\ current_lines # NoLines
    /\ active_idx' = _find_active_line(current_lines, position_s(now))
    /\ pc' = "lyric"
    /\ UNCHANGED <<renderVars, w, h, now, frame, message, flagVars, envVars,
                   termVars, excVars, out_ok, out, screen, histVars>>

(* Mutant of LyricDue: needs_redraw is not looked at. *)
LyricDue_idxonly == active_idx # previous_idx

(* 338: if active_idx != previous_idx or needs_redraw *)
LyricDue == active_idx # previous_idx \/ needs_redraw

(* 338-340: the lyric frame, when the active line moved or a redraw is due *)
LyricWrite ==
    /\ pc = "lyric"
    /\ LyricDue
    /\ frame' = _build_frame(current_lines, active_idx, now, w, h)
    /\ WriteDiffThen(prev_frame, frame', needs_redraw, "lyric_commit")
    /\ UNCHANGED <<renderVars, w, h, now, active_idx, message, flagVars,
                   envVars, termVars, out_ok>>

(* Mutant of LyricCommit: prev_frame is not set to the written frame. *)
LyricCommit_stale ==
    /\ pc = "lyric_commit"
    /\ needs_redraw' = FALSE
    /\ previous_idx' = active_idx
    /\ pc' = "loop"
    /\ UNCHANGED <<current_lines, current_info, prev_frame, tickVars, interrupted,
                   envVars, termVars, excVars, out_ok, out, screen, histVars>>

(* 341-344: prev_frame = frame; needs_redraw = False;
   previous_idx = active_idx *)
LyricCommit ==
    /\ pc = "lyric_commit"
    /\ prev_frame' = frame
    /\ needs_redraw' = FALSE
    /\ previous_idx' = active_idx
    /\ pc' = "loop"
    /\ UNCHANGED <<current_lines, current_info, tickVars, interrupted, envVars,
                   termVars, excVars, out_ok, out, screen, histVars>>

(* 338, 344: nothing to draw; previous_idx = active_idx *)
LyricSkip ==
    /\ pc = "lyric"
    /\ ~LyricDue
    /\ previous_idx' = active_idx
    /\ pc' = "loop"
    /\ UNCHANGED <<current_lines, current_info, prev_frame, tickVars, flagVars,
                   envVars, termVars, excVars, out_ok, out, screen, histVars>>

(* 346-349: finally: show the cursor, clear the screen, flush.  A write that
   raises here leaves the finally clause: 350-353 do not run. *)
ExitWrite ==
    /\ pc = "finally"
    /\ IF out_ok
       THEN /\ out' = out \o <<OutWrite(<<_SHOW_CURSOR>>), OutWrite(_CLEAR), OutFlush>>
            /\ cursor_visible' = TRUE
            /\ screen' = <<>>
            /\ pc' = "restore"
            /\ exc' = exc
       ELSE /\ pc' = "raised"
            /\ exc' = TRUE
            /\ UNCHANGED <<out, cursor_visible, screen>>
    /\ UNCHANGED <<renderVars, tickVars, flagVars, envVars, has_termios,
                   old_termios, tty_mode, out_ok, exit_path, histVars>>

(* 350-353: if has_termios: tcsetattr(fd, TCSADRAIN, old_termios); the old
   signal handlers; then the function returns, or the exception goes on *)
Restore ==
    /\ pc = "restore"
    /\ tty_mode' = IF has_termios THEN old_termios ELSE tty_mode
    /\ pc' = IF exc THEN "raised" ELSE "returned"
    /\ UNCHANGED <<renderVars, tickVars, flagVars, envVars, excVars, has_termios,
                   old_termios, cursor_visible, out_ok, out, screen, histVars>>

(* 262-264: _int_handler, at any point while it is installed *)
IntHandler ==
    /\ Running
    /\ ~interrupted
    /\ interrupted' = TRUE
    /\ UNCHANGED <<pc, needs_redraw, renderVars, tickVars, envVars, termVars,
                   excVars, out_ok, out, screen, histVars>>

(* 266-268: _winch_handler, at any point while it is installed *)
WinchHandler ==
    /\ Running
    /\ ~(needs_redraw /\ winch_pending)
    /\ needs_redraw' = TRUE
    /\ winch_pending' = TRUE
    /\ UNCHANGED <<pc, interrupted, renderVars, tickVars, envVars, termVars,
                   excVars, out_ok, out, screen, ticks_after_int>>

(* The output stream breaks (its reader is gone, the terminal hung up): every
   later write or flush raises. *)
OutBreaks ==
    /\ Running
    /\ out_ok
    /\ out_ok' = FALSE
    /\ UNCHANGED <<pc, flagVars, renderVars, tickVars, envVars, termVars, excVars,
                   out, screen, histVars>>

Next ==
    \/ Tcgetattr \/ Setcbreak \/ EntryWrite \/ LoopTest \/ Poll \/ PollRaises
    \/ NoPlayerWrite \/ NoPlayerCommit \/ SongChangeWrite \/ Fetch \/ FetchRaises
    \/ NoLyricsWrite \/ NoLyricsCommit \/ Locate \/ LyricWrite \/ LyricCommit
    \/ LyricSkip \/ ExitWrite \/ Restore
    \/ IntHandler \/ WinchHandler \/ OutBreaks

Spec == Init /\ [][Next]_vars

----------------------------------------------------------------------------
(* Pipe mode: main's loop, cli.py 51-76, and display_pipe, display.py
   96-124.  info of main is current_info, lyrics is current_lines; now,
   interrupted, previous_idx and active_idx are those of display_pipe.  out
   holds what display_pipe printed since its last loop test; exit_path
   records that display_pipe has returned because its flag was set. *)

pipeIdle ==
    <<needs_redraw, prev_frame, frame, w, h, message, has_termios, old_termios,
      exc, stdin_tty, tty_mode, entry_mode, cursor_visible, out_ok, screen,
      lrc_text, ticks_after_int, winch_pending>>

OutPrint(text) == [op |-> "print", data |-> text]

InitPipe ==
    /\ pc = "pipe_query"
    /\ now = NoSource
    /\ current_lines = NoLines
    /\ active_idx = -1
    /\ needs_redraw = FALSE /\ prev_frame = <<>> /\ frame = <<>>
    /\ w = 80 /\ h = 24 /\ message = <<>> /\ out = <<>>
    /\ lrc_text = <<>>
    /\ RestIdle

(* cli.py 54-57: info = get_now_playing(args.player); if info is None *)
PipeQuery ==
    /\ pc = "pipe_query"
    /\ current_info' \in LoopNows \cup {NoSource}
    /\ pc' = IF current_info' = NoSource THEN "pipe_sleep" ELSE "pipe_fetch"
    /\ UNCHANGED <<now, current_lines, interrupted, previous_idx, active_idx,
                   out, exit_path, pipeIdle>>

(* cli.py 56-57: time.sleep(2); continue *)
PipeSleep ==
    /\ pc = "pipe_sleep"
    /\ pc' = "pipe_query"
    /\ UNCHANGED <<now, current_info, current_lines, interrupted, previous_idx,
                   active_idx, out, exit_path, pipeIdle>>

(* cli.py 58-64: lyrics = fetch_lyrics(...); if lyrics *)
PipeFetch ==
    /\ pc = "pipe_fetch"
    /\ current_lines' \in LoopLyrics \cup {NoLines, <<>>}
    /\ pc' = IF current_lines' \in LoopLyrics THEN "dp_enter" ELSE "pipe_idle"
    /\ UNCHANGED <<now, current_info, interrupted, previous_idx, active_idx,
                   out, exit_path, pipeIdle>>

(* cli.py 67-73: no lyrics: time.sleep(2); new = get_now_playing(...);
   break when the song changed *)
PipeIdle ==
    /\ pc = "pipe_idle"
    /\ now' \in LoopNows \cup {NoSource}
    /\ pc' = IF now' = NoSource
             THEN "pipe_query"
             ELSE IF <<now'.title, now'.artist>> # <<current_info.title, current_info.artist>>
                  THEN "pipe_query"
                  ELSE "pipe_idle"
    /\ UNCHANGED <<current_info, current_lines, interrupted, previous_idx,
                   active_idx, out, exit_path, pipeIdle>>

(* display.py 98-106: interrupted = False; the handler is installed;
   previous_idx = -1 *)
DpEnter ==
    /\ pc = "dp_enter"
    /\ interrupted' = FALSE
    /\ previous_idx' = -1
    /\ pc' = "dp_test"
    /\ UNCHANGED <<now, current_info, current_lines, active_idx, out, exit_path,
                   pipeIdle>>

(* display.py 107, 123-124: while not interrupted; when the flag is set the
   finally clause puts the old handler back and display_pipe returns to
   main's while True (cli.py 53) *)
DpTest ==
    /\ pc = "dp_test"
    /\ pc' = IF interrupted THEN "pipe_query" ELSE "dp_poll"
    /\ exit_path' = IF interrupted THEN "interrupt" ELSE exit_path
    /\ out' = <<>>
    /\ UNCHANGED <<now, current_info, current_lines, interrupted, previous_idx,
                   active_idx, pipeIdle>>

(* display.py 108-122: one pass of the loop body *)
DpPoll ==
    /\ pc = "dp_poll"
    /\ now' \in LoopNows \cup {NoSource}
    /\ IF now' = NoSource
       THEN pc' = "dp_test" /\ UNCHANGED <<previous_idx, active_idx, out>>
       ELSE IF now'.title # current_info.title \/ now'.artist # current_info.artist
            THEN pc' = "pipe_query" /\ UNCHANGED <<previous_idx, active_idx, out>>
            ELSE IF ~now'.is_playing
                 THEN pc' = "dp_test" /\ UNCHANGED <<previous_idx, active_idx, out>>
                 ELSE /\ active_idx' = _find_active_line(current_lines, position_s(now'))
                      /\ previous_idx' = active_idx'
                      /\ out' = IF /\ active_idx' # previous_idx
                                   /\ current_lines[active_idx' + 1].text # <<>>
                                THEN Append(out, OutPrint(current_lines[active_idx' + 1].text))
                                ELSE out
                      /\ pc' = "dp_test"
    /\ UNCHANGED <<current_info, current_lines, interrupted, exit_path, pipeIdle>>

(* get_now_playing or fetch_lyrics raises an error nothing catches *)
PipeRaises ==
    /\ pc \in {"pipe_query", "pipe_fetch", "pipe_idle", "dp_poll"}
    /\ pc' = "raised"
    /\ UNCHANGED <<now, current_info, current_lines, interrupted, previous_idx,
                   active_idx, out, exit_path, pipeIdle>>

(* SIGINT while the default handler is in place: KeyboardInterrupt, caught at
   cli.py 74-75: sys.exit(0) *)
PipeKeyboardInterrupt ==
    /\ pc \in {"pipe_query", "pipe_sleep", "pipe_fetch", "pipe_idle", "dp_enter"}
    /\ pc' = "exited"
    /\ UNCHANGED <<now, current_info, current_lines, interrupted, previous_idx,
                   active_idx, out, exit_path, pipeIdle>>

(* display.py 100-102: SIGINT while display_pipe's _handler is in place *)
DpHandler ==
    /\ pc \in {"dp_test", "dp_poll"}
    /\ ~interrupted
    /\ interrupted' = TRUE
    /\ UNCHANGED <<pc, now, current_info, current_lines, previous_idx,
                   active_idx, out, exit_path, pipeIdle>>

NextPipe ==
    \/ PipeQuery \/ PipeSleep \/ PipeFetch \/ PipeIdle \/ DpEnter \/ DpTest
    \/ DpPoll \/ PipeRaises \/ PipeKeyboardInterrupt \/ DpHandler

SpecPipe == InitPipe /\ [][NextPipe]_vars

----------------------------------------------------------------------------
(* main in either mode, cli.py 51-94: the pipe loop with display_pipe, or
   display_lyrics called with lyrics if lyrics else None.  A behaviour stays
   in the mode it starts in: the handlers of display_lyrics are not
   installed in pipe mode. *)

PipePcs ==
    {"pipe_query", "pipe_sleep", "pipe_fetch", "pipe_idle", "dp_enter",
     "dp_test", "dp_poll", "exited"}

InitMain == Init \/ InitPipe

NextMain == (pc \notin PipePcs /\ Next) \/ NextPipe

SpecMain == InitMain /\ [][NextMain]_vars

----------------------------------------------------------------------------
(* Properties of display_lyrics (Spec) *)

(* C1: whatever the exit path of display_lyrics (the interrupt flag, or an
   exception raised inside the loop body), the terminal's input mode and
   cursor visibility after the exit equal their values before the entry:
   cbreak mode is never left set and the cursor is never left hidden.  The
   cursor is asked for only where the output stream can still carry the
   sequence that shows it; the input mode is set on stdin and is asked for
   on every path. *)
C1_TerminalRestored ==
    (pc \in {"returned", "raised"} /\ exit_path \in {"interrupt", "loop"}) =>
        /\ tty_mode = entry_mode
        /\ out_ok => cursor_visible

(* The positions between the session entry sequence and the exit sequence. *)
SessionPcs ==
    {"sleep", "tick", "noplayer_commit", "fetch", "nolyrics_commit", "lyric",
     "lyric_commit", "finally"}

MoveTokens == {_move(row, 1) : row \in 1..24}
ControlTokens ==
    {_SYNC_START, _SYNC_END, _HIDE_CURSOR, _SHOW_CURSOR, _CLEAR[1], _CLEAR[2]}

(* One complete synchronised update: the begin marker, then cursor-position
   instructions each followed by row content, then the end marker. *)
SyncUpdate(data) ==
    /\ Len(data) >= 2
    /\ data[1] = _SYNC_START
    /\ data[Len(data)] = _SYNC_END
    /\ \A k \in 2..(Len(data) - 1) : data[k] \notin ControlTokens
    /\ Len(data) > 2 => data[2] \in MoveTokens

(* C4: between the session entry sequence and the session exit sequence
   every write to the output stream is one complete synchronised update:
   begin marker first, end marker last, only cursor-position instructions
   and row contents in between. *)
C4_WritesAreSyncUpdates ==
    pc \in SessionPcs =>
        \A k \in 1..Len(out) : out[k].op = "write" => SyncUpdate(out[k].data)

(* C4's case: a lyric tick has written a differential update (some rows of
   the frame, not all) in the session. *)
C4_Witness ==
    /\ pc = "lyric_commit"
    /\ ~needs_redraw
    /\ Len(out) = 2
    /\ out[1].op = "write"
    /\ \E i \in 1..Len(frame) : _move(i, 1) \in {out[1].data[k] : k \in 1..Len(out[1].data)}
    /\ \E i \in 1..Len(frame) : _move(i, 1) \notin {out[1].data[k] : k \in 1..Len(out[1].data)}

----------------------------------------------------------------------------
(* Properties of the differential writer (SpecDiff) *)

(* Row row_idx (from 0) with content line is emitted by the operations ops: a
   write holds the cursor-position instruction to row row_idx + 1, then the
   row content, then the next instruction or the end marker. *)
Emitted(ops, row_idx, line) ==
    \E k \in 1..Len(ops) :
        /\ ops[k].op = "write"
        /\ \E j \in 1..Len(ops[k].data) :
            /\ ops[k].data[j] = _move(row_idx + 1, 1)
            /\ j + Len(line) + 1 <= Len(ops[k].data)
            /\ SubSeq(ops[k].data, j + 1, j + Len(line)) = line
            /\ ops[k].data[j + Len(line) + 1] \in MoveTokens \cup {_SYNC_END}

(* C2: _write_diff emits row i of cur (cursor-position-to-row i+1, then the
   row content) if and only if force is true, or prev has no row i, or
   prev[i] differs from cur[i]. *)
C2_RowEmittedIffChanged ==
    pc = "ret" =>
        \A i \in 0..(Len(frame) - 1) :
            Emitted(out, i, frame[i + 1])
            <=> (\/ needs_redraw
                 \/ i >= Len(prev_frame)
                 \/ prev_frame[i + 1] # frame[i + 1])

(* C2's case: without force, one row is identical and is not emitted while
   another differs and is, and a third has no previous row. *)
C2_Witness ==
    /\ pc = "ret"
    /\ ~needs_redraw
    /\ Len(frame) = 3 /\ Len(prev_frame) = 2
    /\ prev_frame[1] = frame[1] /\ ~Emitted(out, 0, frame[1])
    /\ prev_frame[2] # frame[2] /\ Emitted(out, 1, frame[2])
    /\ Emitted(out, 2, frame[3])

(* C3: when no row of cur differs from prev, prev has a row for every row of
   cur and force is false, _write_diff performs no operation on the output
   stream: no write (no row, no marker) and no flush. *)
C3_NoChangeNoOutput ==
    (/\ pc = "ret"
     /\ ~needs_redraw
     /\ Len(prev_frame) >= Len(frame)
     /\ \A i \in 1..Len(frame) : prev_frame[i] = frame[i])
    => out = <<>>

(* C3's case: a frame of several rows diffed against itself. *)
C3_Witness ==
    /\ pc = "ret"
    /\ ~needs_redraw
    /\ Len(frame) >= 2
    /\ prev_frame = frame
    /\ out = <<>>

----------------------------------------------------------------------------
(* Properties of the active-line locator (SpecLocator) *)

(* The indexes (from 0) of the lines at or before position p. *)
AtOrBefore(lines, p) == {i \in 0..(Len(lines) - 1) : lines[i + 1].time_s <= p}

(* C5: for lines sorted by time_s, _find_active_line returns the largest
   index i with lines[i].time_s <= p (the last of the entries sharing a
   timestamp), and 0 when there is none, the empty sequence included. *)
C5_LargestIndexAtOrBefore ==
    pc = "ret" =>
        LET S == AtOrBefore(current_lines, position_s(now))
        IN  IF S = {}
            THEN active_idx = 0
            ELSE active_idx \in S /\ \A i \in S : i <= active_idx

(* C5's case: two entries share the timestamp the query is at, a later entry
   follows, and the last of the two is returned. *)
C5_Witness ==
    /\ pc = "ret"
    /\ Len(current_lines) = 3
    /\ current_lines[1].time_s = current_lines[2].time_s
    /\ current_lines[2].time_s = position_s(now)
    /\ current_lines[3].time_s > position_s(now)
    /\ active_idx = 1

(* C6 as stated: for any sorted T and any p the returned index i has
   T[i] <= p and (i = len(T) - 1 or T[i+1] > p). *)
C6_Original ==
    pc = "ret" =>
        /\ active_idx < Len(current_lines)
        /\ current_lines[active_idx + 1].time_s <= position_s(now)
        /\ \/ active_idx = Len(current_lines) - 1
           \/ current_lines[active_idx + 2].time_s > position_s(now)

(* C6 amended: for any sorted T and any p with some timestamp at or before p
   (T not empty and T[0] <= p), the returned index i has T[i] <= p and
   (i = len(T) - 1 or T[i+1] > p). *)
C6_Bracketed ==
    (/\ pc = "ret"
     /\ Len(current_lines) > 0
     /\ current_lines[1].time_s <= position_s(now))
    => /\ active_idx < Len(current_lines)
       /\ current_lines[active_idx + 1].time_s <= position_s(now)
       /\ \/ active_idx = Len(current_lines) - 1
          \/ current_lines[active_idx + 2].time_s > position_s(now)

(* C6's case: the query lies between two timestamps, strictly before the
   last one. *)
C6_Witness ==
    /\ pc = "ret"
    /\ Len(current_lines) = 3
    /\ current_lines[1].time_s < position_s(now)
    /\ active_idx = 1
    /\ current_lines[3].time_s > position_s(now)

----------------------------------------------------------------------------
(* Properties of the frame builders (SpecFrame) *)

Last(row) == row[Len(row)]

(* The characters of a row that are not spaces. *)
Inked(row) == SelectSeq(Visible(row), LAMBDA tok : tok # " ")

Highlighted(row) ==
    Len(row) >= 3 /\ SubSeq(row, 1, 3) = <<_BOLD, _BG_BLUE, _FG_BR_WHITE>>

(* C7 as stated: for every size with columns > 0 and rows > 0 the frame of
   _build_frame and of _build_status has exactly rows row strings, each
   ending with the erase-to-end-of-line marker. *)
C7_ExactlyRowsRows ==
    pc \in {"ret_frame", "ret_status"} =>
        /\ Len(frame) = h
        /\ \A i \in 1..Len(frame) : Len(frame[i]) > 0 /\ Last(frame[i]) = _EL

(* C8: in a lyric frame with a window of available = rows - 3 >= 1 rows and a
   valid active index, the active line is on frame row 2 + available // 2
   (from 0), whatever the number of lines before and after it; a window row
   whose lyric index is outside the lines is blank, and every other window
   row shows the line of its own index. *)
C8_ActiveLineCentred ==
    (/\ pc = "ret_frame"
     /\ h - 3 >= 1
     /\ Len(current_lines) > 0)
    => LET available == h - 3
           half == available \div 2
       IN  /\ Highlighted(frame[2 + half + 1])
           /\ Inked(frame[2 + half + 1]) = current_lines[active_idx + 1].text
           /\ \A r \in 0..(available - 1) :
                LET lyric_idx == active_idx - half + r
                IN  IF lyric_idx < 0 \/ lyric_idx >= Len(current_lines)
                    THEN frame[2 + r + 1] = <<_EL>>
                    ELSE /\ Highlighted(frame[2 + r + 1]) <=> (r = half)
                         /\ r # half =>
                              Inked(frame[2 + r + 1])
                              = Prefix(current_lines[lyric_idx + 1].text, w)

(* C8's case: the active line is the first of three, so the rows above it in
   the window are blank and the two lines after it follow it. *)
C8_Witness ==
    /\ pc = "ret_frame"
    /\ h = 6
    /\ Len(current_lines) = 3
    /\ active_idx = 0
    /\ frame[3] = <<_EL>>
    /\ Highlighted(frame[4])
    /\ frame[5] # <<_EL>>

(* C9 as stated: the visible content of every lyric-window row, active or
   not, is at most columns characters. *)
C9_WindowRowsFitWidth ==
    pc = "ret_frame" =>
        \A r \in 0..(h - 3 - 1) : Len(Visible(frame[2 + r + 1])) <= w

(* C10 as stated: every row of every frame has visible content exactly
   columns characters wide. *)
C10_Original ==
    pc \in {"ret_frame", "ret_status"} =>
        \A i \in 1..Len(frame) : Len(Visible(frame[i])) = w

(* Width of a text of n characters truncated to width and padded on the left
   only with (width - n) // 2 spaces. *)
LeftCentredWidth(n, width) == IF n >= width THEN width ELSE (width - n) \div 2 + n

(* The visible width the amended C10 gives row i (from 1) of the frame. *)
RowWidth(i) ==
    LET available == h - 3
        r == i - 3
    IN  IF pc = "ret_status"
        THEN IF i = 1 THEN LeftCentredWidth(Len(StatusHeader(now)), w)
             ELSE IF 0 <= r /\ r < available /\ r = available \div 2
                  THEN LeftCentredWidth(Len(message), w)
                  ELSE 0
        ELSE IF i = 1
             THEN Max(0, (w - Len(HeaderPlain(now))) \div 2) + Len(HeaderPlain(now))
             ELSE LET lyric_idx == active_idx - available \div 2 + r
                  IN  IF r < 0 \/ r >= available \/ lyric_idx < 0
                         \/ lyric_idx >= Len(current_lines)
                      THEN 0
                      ELSE IF lyric_idx = active_idx
                           THEN Max(w, Len(current_lines[lyric_idx + 1].text))
                           ELSE LeftCentredWidth(
                                    Len(current_lines[lyric_idx + 1].text), w)

(* C10 amended: every row of every frame ends with the erase-to-end-of-line
   marker and is not padded to columns: a blank row has no visible content;
   a status-frame row and a non-active lyric row hold their text truncated
   to columns and padded on the left only, (columns - len) // 2 spaces; the
   active lyric row is padded on both sides to columns and is not truncated;
   the lyric-frame header is padded on the left only and is not truncated. *)
C10_RowWidths ==
    pc \in {"ret_frame", "ret_status"} =>
        \A i \in 1..Len(frame) :
            /\ Len(Visible(frame[i])) = RowWidth(i)
            /\ Last(frame[i]) = _EL

(* C10's case: in a lyric frame a non-active line is narrower than the
   terminal while the active row spans it. *)
C10_Witness ==
    /\ pc = "ret_frame"
    /\ h = 6 /\ Len(current_lines) = 3 /\ active_idx = 1
    /\ Len(Visible(frame[3])) > 0 /\ Len(Visible(frame[3])) < w
    /\ Len(Visible(frame[4])) = w

----------------------------------------------------------------------------
(* Song transitions of display_lyrics (Spec) *)

Identity(np) == <<np.title, np.artist>>

(* The tick has a source whose (title, artist) is not the stored one. *)
IdentityDiffers == now # NoSource /\ Identity(now) # Identity(current_info)

FetchingFrames ==
    {_build_status(MsgFetching, np, size[1], size[2]) :
        np \in LoopNows, size \in LoopSizes}
NoPlayerFrames ==
    {_build_status(MsgNoPlayer, NoSource, size[1], size[2]) : size \in LoopSizes}

(* C11: a song transition (the active index reset to -1, the "Fetching
   lyrics" frame, the call of fetch_lyrics, current_lines replaced) happens
   in a tick if and only if a source is present and its (title, artist)
   differs from the stored identity.  A tick whose source differs in
   position, is_playing, album or duration only, or that has no source,
   changes neither the stored identity nor current_lines, and so a source
   that comes back with the same (title, artist) is not fetched again. *)
C11_TransitionIffIdentityDiffers ==
    [][/\ (pc = "tick" /\ pc' # pc /\ IdentityDiffers) =>
            /\ previous_idx' = -1
            /\ current_info' = now
            /\ frame' = _build_status(MsgFetching, now, w, h)
            /\ out_ok => (pc' = "fetch" /\ prev_frame' = frame' /\ out' # out)
       /\ (pc = "tick" /\ pc' # pc /\ ~IdentityDiffers) =>
            /\ pc' # "fetch"
            /\ frame' \notin FetchingFrames \/ frame' = frame
            /\ UNCHANGED <<current_info, current_lines, previous_idx>>
       /\ (pc' = "fetch" /\ pc # "fetch") => (pc = "tick" /\ IdentityDiffers)
       /\ current_lines' # current_lines => pc = "fetch"
       /\ Identity(current_info') # Identity(current_info) => (pc = "tick" /\ IdentityDiffers)
      ]_vars

(* The song is back after a tick without a source, with another album and
   paused: the tick goes on to the lyric frame, nothing is fetched. *)
C11_Witness ==
    /\ pc = "lyric"
    /\ now # current_info
    /\ prev_frame \in NoPlayerFrames

----------------------------------------------------------------------------
(* Termination of display_lyrics (Spec) *)

(* 347-349: what the finally clause writes *)
ExitOps == <<OutWrite(<<_SHOW_CURSOR>>), OutWrite(_CLEAR), OutFlush>>

(* C12: once the interrupt has set the flag, at most one further tick body
   is begun (the one after the sleep in progress); the loop is then left,
   and when display_lyrics is over after that exit the exit sequence has
   run: the input mode is the one of the entry and, where the output stream
   can still carry them, the cursor is shown and the screen is cleared. *)
C12_InterruptEndsSession ==
    /\ ticks_after_int <= 1
    /\ (interrupted /\ pc = "sleep") => ticks_after_int = 0
    /\ (exit_path = "interrupt" /\ ~Running) =>
        /\ tty_mode = entry_mode
        /\ out_ok => (out = ExitOps /\ cursor_visible /\ screen = <<>>)

----------------------------------------------------------------------------
(* Properties of parse_lrc (SpecParser) *)

(* C13: parse_lrc returns exactly one LyricLine for every line of the text
   that matches the timestamp pattern (the other lines are skipped, no
   matching line is dropped or doubled), in non-decreasing order of time_s
   whatever the order of the text, and lines of equal time_s in the order
   they have in the text. *)
C13_OnePerMatchSortedStable ==
    pc = "ret_parse" =>
        LET raw_lines == splitlines(lrc_text)
            matching == {i \in 1..Len(raw_lines) : pattern_match(raw_lines[i])}
            n == Cardinality(matching)
        IN  /\ Len(current_lines) = n
            /\ IsSorted(current_lines)
            /\ \E origin \in [1..n -> matching] :
                /\ \A a, b \in 1..n : a # b => origin[a] # origin[b]
                /\ \A a \in 1..n : current_lines[a] = ParsedLine(raw_lines[origin[a]])
                /\ \A a, b \in 1..n :
                    (a < b /\ current_lines[a].time_s = current_lines[b].time_s)
                        => origin[a] < origin[b]

(* "[00:60]a", " [00:01.5] c ", "[1:00:0] b": the line at 1.5 s comes first,
   the two lines at 60 s follow in the order of the text. *)
C13_Witness ==
    /\ pc = "ret_parse"
    /\ lrc_text = JoinLines(<<RawA, RawC, RawB>>)
    /\ current_lines =
        <<LyricLine(1500000, <<"c">>), LyricLine(60 * US_PER_S, <<"a">>),
          LyricLine(60 * US_PER_S, <<"b">>)>>

----------------------------------------------------------------------------
(* Resize notifications of display_lyrics (Spec) *)

(* C14: a resize notification delivered while the loop runs, at whatever
   point of the tick, is followed by a write with force set before the flag
   is cleared: as long as no forced write has followed the notification,
   needs_redraw is still set. *)
C14_NoResizeLost == winch_pending => needs_redraw

----------------------------------------------------------------------------
(* The song-transition tick of display_lyrics (Spec) *)

CommitPcs == {"noplayer_commit", "nolyrics_commit", "lyric_commit"}

(* Every row of frame fr is in the operations ops. *)
FullyEmitted(ops, fr) == \A i \in 0..(Len(fr) - 1) : Emitted(ops, i, fr[i + 1])

(* C15: in a song-transition tick the loop first writes the "Fetching
   lyrics" status frame as a full redraw (every row, nothing kept of the
   previous frame), then calls fetch_lyrics once and stores its result, an
   empty or absent one as none, next to the new identity, and writes no
   lyric frame in that tick; the first frame written in the following tick
   is written with force set, every row of it. *)
C15_TransitionTick ==
    [][/\ (pc = "tick" /\ pc' = "fetch") =>
            /\ frame' = _build_status(MsgFetching, now, w, h)
            /\ prev_frame' = frame'
            /\ current_info' = now
            /\ out' # out /\ FullyEmitted(out', frame')
            /\ \A i \in 1..Len(frame') : screen'[i] = frame'[i]
       /\ (pc = "fetch" /\ pc' # pc) =>
            /\ pc' \in {"loop", "finally"}
            /\ UNCHANGED <<out, screen, prev_frame, current_info>>
            /\ pc' = "loop" =>
                /\ current_lines' \in LoopLyrics \cup {NoLines}
                /\ needs_redraw'
       /\ (prev_frame \in FetchingFrames /\ pc \in {"loop", "sleep", "tick", "lyric"})
            => needs_redraw
       /\ (prev_frame \in FetchingFrames /\ pc \in {"tick", "lyric"} /\ pc' \in CommitPcs)
            => (out' # out /\ FullyEmitted(out', frame'))
       /\ (prev_frame \in FetchingFrames /\ pc = "lyric") => pc' # "loop"
      ]_vars

(* The tick after a transition has written its lyric frame over the
   "Fetching lyrics" frame. *)
C15_Witness ==
    /\ pc = "lyric_commit"
    /\ prev_frame \in FetchingFrames
    /\ FullyEmitted(out, frame)

----------------------------------------------------------------------------
(* The lyric tick of display_lyrics (Spec) *)

(* C16: in a tick with a source of the stored identity and current_lines
   not none, a lyric frame is built and handed to the differential writer
   if and only if the computed active index differs from previous_idx or
   needs_redraw is set; otherwise nothing is written and prev_frame stays.
   Either way previous_idx is the computed index at the end of the tick,
   and needs_redraw is false at the end of a tick that wrote. *)
C16_LyricFrameIffDue ==
    [][/\ (pc = "tick" /\ pc' # pc /\ now # NoSource /\ current_lines # NoLines)
            => (Identity(now) = Identity(current_info) <=> pc' = "lyric")
       /\ (pc = "tick" /\ pc' = "lyric")
            => active_idx' = _find_active_line(current_lines, position_s(now))
       /\ (pc = "lyric" /\ pc' # pc /\ (active_idx # previous_idx \/ needs_redraw)) =>
            /\ frame' = _build_frame(current_lines, active_idx, now, w, h)
            /\ out_ok =>
                /\ pc' = "lyric_commit"
                /\ out' = out \o _write_diff(prev_frame, frame', needs_redraw)
       /\ (pc = "lyric" /\ pc' # pc /\ active_idx = previous_idx /\ ~needs_redraw) =>
            /\ pc' = "loop"
            /\ previous_idx' = active_idx
            /\ UNCHANGED <<out, screen, prev_frame, needs_redraw>>
       /\ (pc = "lyric_commit" /\ pc' # pc) =>
            /\ pc' = "loop"
            /\ previous_idx' = active_idx
            /\ prev_frame' = frame
            /\ ~needs_redraw'
      ]_vars

(* The end of a lyric tick that had nothing to draw. *)
C16_Witness ==
    /\ pc = "loop"
    /\ out = <<>>
    /\ now # NoSource
    /\ current_lines # NoLines
    /\ previous_idx = active_idx
    /\ ~needs_redraw
    /\ \E i \in 1..Len(prev_frame) : Highlighted(prev_frame[i])

----------------------------------------------------------------------------
(* The status ticks of display_lyrics (Spec) *)

Unspaced(text) == SelectSeq(text, LAMBDA tok : tok # " ")

(* Frame fr shows message msg, cut to width, on one row below the header
   and nothing on the other rows below the header. *)
ShowsMessage(fr, msg, width) ==
    \E r \in 3..Len(fr) :
        /\ Inked(fr[r]) = Unspaced(Prefix(msg, width))
        /\ \A r2 \in 2..Len(fr) : r2 # r => Inked(fr[r2]) = <<>>

(* C17: in every tick without a source the frame handed to the writer is
   the status frame "No media player detected." under the header
   "pylyrics"; in every tick with a source of the stored identity and
   current_lines none it is the status frame "No synced lyrics found.".
   In both the loop goes on to the next tick (unless the write itself
   raises), and the stored identity, current_lines and previous_idx are
   what they were. *)
C17_AbsenceRendered ==
    [][/\ (pc = "tick" /\ pc' # pc /\ now = NoSource) =>
            /\ Inked(frame'[1]) = Prefix(<<"p", "y", "l", "y", "r", "i", "c", "s">>, w)
            /\ ShowsMessage(frame', MsgNoPlayer, w)
            /\ out_ok =>
                /\ pc' = "noplayer_commit"
                /\ out' = out \o _write_diff(prev_frame, frame', needs_redraw)
            /\ UNCHANGED <<current_info, current_lines, previous_idx>>
       /\ (/\ pc = "tick" /\ pc' # pc /\ now # NoSource
           /\ Identity(now) = Identity(current_info) /\ current_lines = NoLines) =>
            /\ ShowsMessage(frame', MsgNoLyrics, w)
            /\ out_ok =>
                /\ pc' = "nolyrics_commit"
                /\ out' = out \o _write_diff(prev_frame, frame', needs_redraw)
            /\ UNCHANGED <<current_info, current_lines, previous_idx>>
       /\ (pc \in {"noplayer_commit", "nolyrics_commit"} /\ pc' # pc) =>
            /\ pc' = "loop"
            /\ UNCHANGED <<current_info, current_lines, previous_idx>>
      ]_vars

(* A tick without a source, after ticks that showed lyrics: the status frame
   is written, the lines and the active index are kept. *)
C17_Witness ==
    /\ pc = "noplayer_commit"
    /\ now = NoSource
    /\ current_lines # NoLines
    /\ previous_idx >= 0
    /\ out # <<>>
    /\ ShowsMessage(frame, MsgNoPlayer, w)

----------------------------------------------------------------------------
(* What the terminal shows (Spec) *)

(* The screen shows a lyric frame: one of its rows is the highlighted
   active line, which no status frame has. *)
ShowsLyrics(scr) == \E i \in 1..Len(scr) : Highlighted(scr[i])

(* C18: at the end of every tick with a source of the stored identity and
   current_lines not none, the terminal shows a lyric frame, not a status
   frame: also at the end of the first such tick after ticks without a
   source, whatever the active index. *)
C18_LyricFrameShown ==
    [][(pc \in {"lyric", "lyric_commit"} /\ pc' = "loop") => ShowsLyrics(screen')]_vars

----------------------------------------------------------------------------
(* Properties of pipe mode (SpecPipe) *)

(* C19: once display_pipe has returned because its interrupt flag was set,
   main's pipe loop does not query the player, fetch lyrics or enter
   display_pipe again: the program is at the point of that return, or it
   has ended. *)
C19_NoRequeryAfterInterrupt ==
    exit_path = "interrupt" => pc \in {"pipe_query", "exited"}


(* The points between two ticks' statements at which prev_frame is up to
   date: not between a write and the assignment prev_frame = frame that
   follows it, and not after the screen was cleared on exit. *)
SettledPcs == {"loop", "sleep", "tick", "fetch", "lyric", "finally"}

(* C20: the terminal being rows changed by the loop's writes only, after
   any sequence of ticks every screen row below the length of prev_frame
   equals prev_frame's row: writing the changed rows only leaves the screen
   as writing every row would. *)
C20_ScreenIsPrevFrame ==
    pc \in SettledPcs =>
        \A i \in 1..Len(prev_frame) : i <= Len(screen) /\ screen[i] = prev_frame[i]

(* A lyric frame was written over another one of the same size without
   force: some rows were emitted, some were not, and the screen shows the
   new frame. *)
C20_Witness ==
    /\ pc = "loop"
    /\ out # <<>>
    /\ ShowsLyrics(screen)
    /\ \E i \in 1..Len(prev_frame) : ~Emitted(out, i - 1, prev_frame[i])
    /\ \E i \in 1..Len(prev_frame) : Emitted(out, i - 1, prev_frame[i])

----------------------------------------------------------------------------
(* Properties of both modes (SpecMain) *)

(* The positions of display_lyrics before it is over, and of display_pipe. *)
RenderPcs == SessionPcs \cup {"start", "setcbreak", "entry", "loop", "restore"}
DisplayPipePcs == {"dp_enter", "dp_test", "dp_poll"}

ValidIndex(idx, lines) == idx >= 0 /\ idx < Len(lines)

(* C21: in every state of the render loop current_lines is none or a
   non-empty sequence, so the locator and the lyric frame builder are never
   called on an empty sequence and the index they use is an index of
   current_lines; display_pipe too is only ever inside with a non-empty
   sequence and prints only lines at an index of it. *)
C21_LinesNoneOrNonEmpty ==
    /\ pc \in RenderPcs => (current_lines = NoLines \/ Len(current_lines) > 0)
    /\ pc \in {"lyric", "lyric_commit"} =>
        /\ current_lines # NoLines
        /\ ValidIndex(active_idx, current_lines)
    /\ pc \in DisplayPipePcs =>
        /\ current_lines # NoLines
        /\ Len(current_lines) > 0
        /\ (pc # "dp_enter" /\ previous_idx # -1)
            => ValidIndex(previous_idx, current_lines)

(* The locator's edge case: the position is before the first timestamp of
   a one-line song, the result 0 is the index of that line. *)
C21_Witness ==
    /\ pc = "lyric"
    /\ Len(current_lines) = 1
    /\ position_s(now) < current_lines[1].time_s
    /\ active_idx = 0

=============================================================================
